---- MODULE Spec2Model ----
(***************************************************************************)
(* Model of server.c: a single-threaded TCP server that accepts one        *)
(* connection at a time, reads one line-delimited message of at most       *)
(* MAX_MSG_LEN bytes one byte per recv(), answers with the echoed content   *)
(* or with "ERR too long\n", and closes the connection.                     *)
(*                                                                         *)
(* The program state is main's locals (cfd, buf, total, too_long), errno    *)
(* and the position in main (pc).  The kernel side is the accept queue and  *)
(* the outcome of each system call, chosen nondeterministically.  The       *)
(* remaining variables are history variables that record what one           *)
(* connection was given and what the server did to it.                      *)
(***************************************************************************)
EXTENDS Integers, Sequences, FiniteSets, TLC

\* ---- program constants (server.c:66-67) --------------------------------
MAX_MSG_LEN == 20
BACKLOG == 128

\* ---- bounds of the model -----------------------------------------------
\* most non-terminator bytes one peer delivers
MaxContent == 22
\* connection attempts in one run
MaxConns == 2
\* interrupted recv() calls on one connection
MaxEintr == 1
\* consecutive failed accept() calls
MaxAcceptFail == 1

\* ---- bytes -------------------------------------------------------------
LF == "\n"
CR == "\r"
NUL == "NUL"
\* the value of a buf cell that was never assigned
Indet == "?"
\* the value of a buf cell that holds a byte of an earlier loop iteration
Stale == "!"
Terminators == {LF, CR}
Alphabet == <<"a", "b", "E">>
\* a peer's content follows one of these patterns: 1 cycles through the
\* alphabet, 3 repeats one byte
Patterns == {1, 3}
Pat(p, i) == Alphabet[((p * i) % Len(Alphabet)) + 1]

\* errno values
E0 == "0"
EINTR == "EINTR"
EPIPE == "EPIPE"
\* any errno that is neither EINTR nor EPIPE
EOTHER == "EOTHER"
EXIT_FAILURE == 1
\* exit_code of a process that has not exited
Running == -1

VARIABLES
    pc,          \* position in main
    exit_code,   \* Running, or the status passed to exit()
    errno,
    log,         \* lines printed since the start of setup / of the current loop iteration
    queue,       \* kernel accept queue: connection ids in arrival order
    nconn,       \* connection attempts so far
    cfd,         \* main's cfd (-1 after a failed accept)
    buf,         \* char buf[MAX_MSG_LEN + 1]
    total,
    too_long,
    open,        \* connected sockets the server holds open
    closes,      \* per connection: number of close() calls
    accepted,    \* connections in the order accept() returned them
    closed,      \* connections in the order close() was called
    pat,         \* pattern of the current peer's content
    rx,          \* bytes recv() has returned on the current connection
    rxEnd,       \* how the read loop ended: "" (not yet), "term", "eof", "err"
    out,         \* bytes successfully written to the current connection
    sends,       \* send() calls on the current connection: data and result
    wrote,       \* indices of buf assigned on the current connection
    peer_gone,   \* the peer closed its read side (send fails with EPIPE)
    eintrs,      \* interrupted recv() calls on the current connection
    afails       \* failed accept() calls since the last successful one

vars == <<pc, exit_code, errno, log, queue, nconn, cfd, buf, total, too_long,
          open, closes, accepted, closed, pat, rx, rxEnd, out, sends, wrote,
          peer_gone, eintrs, afails>>

progVars == <<cfd, buf, total, too_long>>
connVars == <<open, closes, accepted, closed>>
histVars == <<pat, rx, rxEnd, out, sends, wrote, peer_gone, eintrs>>

Indeterminate == [i \in 0..MAX_MSG_LEN |-> Indet]

\* buf as a new iteration finds it when it reuses the previous iteration's
\* storage: the cells that were assigned hold stale bytes
Leftover(b) == [i \in 0..MAX_MSG_LEN |-> IF b[i] = Indet THEN Indet ELSE Stale]

Init ==
    /\ pc = "socket"
    /\ exit_code = Running
    /\ errno = E0
    /\ log = <<>>
    /\ queue = <<>>
    /\ nconn = 0
    /\ cfd = -1
    /\ buf = Indeterminate
    /\ total = 0
    /\ too_long = 0
    /\ open = {}
    /\ closes = [c \in 1..MaxConns |-> 0]
    /\ accepted = <<>>
    /\ closed = <<>>
    /\ pat = 1
    /\ rx = <<>>
    /\ rxEnd = ""
    /\ out = <<>>
    /\ sends = <<>>
    /\ wrote = {}
    /\ peer_gone = FALSE
    /\ eintrs = 0
    /\ afails = 0

\* ---- setup (server.c:80-193) -------------------------------------------
\* mutant: die exits with status 0
dieExitZero(msg) ==
    /\ log' = Append(log, "perror " \o msg)
    /\ exit_code' = 0
    /\ pc' = "exited"

die(msg) ==
    /\ log' = Append(log, "perror " \o msg)
    /\ exit_code' = EXIT_FAILURE
    /\ pc' = "exited"

SetupStep(here, next, msg) ==
    /\ pc = here
    /\ \E ok \in BOOLEAN :
         IF ok
         THEN /\ pc' = next
              /\ log' = IF next = "accept" THEN Append(log, "listening") ELSE log
              /\ errno' = errno
              /\ exit_code' = exit_code
         ELSE /\ die(msg)
              /\ errno' = EOTHER
    /\ UNCHANGED <<queue, nconn, progVars, connVars, histVars, afails>>

Socket == SetupStep("socket", "setsockopt", "socket")
SetSockOpt == SetupStep("setsockopt", "inet_pton", "setsockopt")
InetPton == SetupStep("inet_pton", "bind", "inet_pton")
Bind == SetupStep("bind", "listen", "bind")
Listen == SetupStep("listen", "accept", "listen")

Serving == pc \in {"accept", "recv", "respond", "newline", "close"}

\* a client connects: the kernel queues the connection until accept()
Connect ==
    /\ Serving
    /\ nconn < MaxConns
    /\ Len(queue) < BACKLOG
    /\ nconn' = nconn + 1
    /\ queue' = Append(queue, nconn + 1)
    /\ UNCHANGED <<pc, exit_code, errno, log, progVars, connVars, histVars, afails>>

\* ---- accept loop (server.c:207-222, 259-261) ---------------------------
\* mutant: total and too_long are not reset for a new connection
AcceptKeepsState ==
    /\ pc = "accept"
    /\ queue # <<>>
    /\ cfd' = Head(queue)
    /\ queue' = Tail(queue)
    /\ open' = open \cup {Head(queue)}
    /\ accepted' = Append(accepted, Head(queue))
    /\ log' = <<"client connected">>
    /\ pat' \in Patterns
    /\ rx' = <<>>
    /\ rxEnd' = ""
    /\ out' = <<>>
    /\ sends' = <<>>
    /\ wrote' = {}
    /\ peer_gone' = FALSE
    /\ eintrs' = 0
    /\ afails' = 0
    /\ pc' = "recv"
    /\ UNCHANGED <<exit_code, errno, nconn, closes, closed, buf, total, too_long>>

Accept ==
    /\ pc = "accept"
    /\ queue # <<>>
    /\ cfd' = Head(queue)
    /\ queue' = Tail(queue)
    /\ open' = open \cup {Head(queue)}
    /\ accepted' = Append(accepted, Head(queue))
    /\ log' = <<"client connected">>
    /\ \E b \in {Leftover(buf), Indeterminate} : buf' = b
    /\ total' = 0
    /\ too_long' = 0
    /\ \E p \in Patterns : pat' = p
    /\ rx' = <<>>
    /\ rxEnd' = ""
    /\ out' = <<>>
    /\ sends' = <<>>
    /\ wrote' = {}
    /\ peer_gone' = FALSE
    /\ eintrs' = 0
    /\ afails' = 0
    /\ pc' = "recv"
    /\ UNCHANGED <<exit_code, errno, nconn, closes, closed>>

\* mutant: an accept failure other than EINTR terminates the process
AcceptFailDies(e) ==
    /\ pc = "accept"
    /\ afails < MaxAcceptFail
    /\ afails' = afails + 1
    /\ cfd' = -1
    /\ errno' = e
    /\ log' = IF e = EINTR THEN <<>> ELSE <<"perror accept">>
    /\ pc' = IF e = EINTR THEN "accept" ELSE "exited"
    /\ exit_code' = IF e = EINTR THEN exit_code ELSE EXIT_FAILURE
    /\ UNCHANGED <<queue, nconn, buf, total, too_long, connVars, histVars>>

AcceptFail(e) ==
    /\ pc = "accept"
    /\ afails < MaxAcceptFail
    /\ afails' = afails + 1
    /\ cfd' = -1
    /\ errno' = e
    /\ log' = IF e = EINTR THEN <<>> ELSE <<"perror accept">>
    /\ pc' = "accept"
    /\ UNCHANGED <<exit_code, queue, nconn, buf, total, too_long, connVars, histVars>>

AcceptEintr == AcceptFail(EINTR)
AcceptError == AcceptFail(EOTHER)

\* ---- read loop (server.c:263-291) --------------------------------------
\* mutant: '\r' is not recognised as a terminator
IsTerminatorLfOnly(ch) == ch = LF

IsTerminator(ch) == ch = LF \/ ch = CR

\* mutant: the bound is one too small
HasRoomTight(t) == t + 1 < MAX_MSG_LEN

\* mutant: the bound is one too large (<= for <)
HasRoomInclusive(t) == t <= MAX_MSG_LEN

HasRoom(t) == t < MAX_MSG_LEN


\* the bytes the peer may deliver next: the next byte of its content, or a
\* terminator
NextBytes ==
    (IF Len(rx) < MaxContent THEN {Pat(pat, Len(rx) + 1)} ELSE {}) \cup Terminators

\* mutant: end-of-stream discards what was accumulated
RecvEofDiscard ==
    /\ pc = "recv"
    /\ rxEnd' = "eof"
    /\ total' = 0
    /\ buf' = [buf EXCEPT ![0] = NUL]
    /\ wrote' = wrote \cup {0}
    /\ pc' = "respond"
    /\ UNCHANGED <<exit_code, errno, log, queue, nconn, cfd, too_long,
                   connVars, pat, rx, out, sends, peer_gone, eintrs, afails>>

\* n == 0 (server.c:266-269), then buf[total] = '\0' (server.c:291)
RecvEof ==
    /\ pc = "recv"
    /\ rxEnd' = "eof"
    /\ buf' = [buf EXCEPT ![total] = NUL]
    /\ wrote' = wrote \cup {total}
    /\ pc' = "respond"
    /\ UNCHANGED <<exit_code, errno, log, queue, nconn, cfd, total, too_long,
                   connVars, pat, rx, out, sends, peer_gone, eintrs, afails>>

\* mutant: an interrupted recv ends the read loop like any other error
RecvEintrBreaks ==
    /\ pc = "recv"
    /\ eintrs < MaxEintr
    /\ eintrs' = eintrs + 1
    /\ errno' = EINTR
    /\ log' = Append(log, "perror recv")
    /\ rxEnd' = "err"
    /\ buf' = [buf EXCEPT ![total] = NUL]
    /\ wrote' = wrote \cup {total}
    /\ pc' = "respond"
    /\ UNCHANGED <<exit_code, queue, nconn, cfd, total, too_long, connVars,
                   pat, rx, out, sends, peer_gone, afails>>

\* n < 0 && errno == EINTR (server.c:270-272)
RecvEintr ==
    /\ pc = "recv"
    /\ eintrs < MaxEintr
    /\ eintrs' = eintrs + 1
    /\ errno' = EINTR
    /\ pc' = "recv"
    /\ UNCHANGED <<exit_code, log, queue, nconn, progVars, connVars,
                   pat, rx, rxEnd, out, sends, wrote, peer_gone, afails>>

\* n < 0 && errno != EINTR (server.c:270-275), then server.c:291
RecvError ==
    /\ pc = "recv"
    /\ errno' = EOTHER
    /\ log' = Append(log, "perror recv")
    /\ rxEnd' = "err"
    /\ buf' = [buf EXCEPT ![total] = NUL]
    /\ wrote' = wrote \cup {total}
    /\ pc' = "respond"
    /\ UNCHANGED <<exit_code, queue, nconn, cfd, total, too_long,
                   connVars, pat, rx, out, sends, peer_gone, eintrs, afails>>

\* n == 1 (server.c:277-289), and server.c:291 when the byte ends the loop
RecvByte ==
    /\ pc = "recv"
    /\ \E ch \in NextBytes :
         /\ rx' = Append(rx, ch)
         /\ IF IsTerminator(ch)
            THEN /\ rxEnd' = "term"
                 /\ buf' = [buf EXCEPT ![total] = NUL]
                 /\ wrote' = wrote \cup {total}
                 /\ pc' = "respond"
                 /\ UNCHANGED <<total, too_long>>
            ELSE IF HasRoom(total)
            THEN /\ buf' = [buf EXCEPT ![total] = ch]
                 /\ wrote' = wrote \cup {total}
                 /\ total' = total + 1
                 /\ UNCHANGED <<too_long, rxEnd, pc>>
            ELSE /\ too_long' = 1
                 /\ UNCHANGED <<buf, total, wrote, rxEnd, pc>>
    /\ UNCHANGED <<exit_code, errno, log, queue, nconn, cfd, connVars,
                   pat, out, sends, peer_gone, eintrs, afails>>

\* ---- response (server.c:301-317) ---------------------------------------
ErrMsg == <<"E", "R", "R", " ", "t", "o", "o", " ", "l", "o", "n", "g", LF>>
Newline == <<LF>>

\* mutant: the echo branch is tested before the overflow flag
DispatchEchoFirst(tl, t) ==
    IF t > 0 THEN "echo" ELSE IF tl # 0 THEN "error" ELSE "empty"

\* mutant: the echo branch is taken for total >= 0
DispatchNoEmpty(tl, t) ==
    IF tl # 0 THEN "error" ELSE "echo"

\* the branch of the if / else if / else at server.c:301, 307, 314
Dispatch(tl, t) ==
    IF tl # 0 THEN "error" ELSE IF t > 0 THEN "echo" ELSE "empty"

\* mutant: the echo starts at buf + 1
SendBufShifted(b, t) == [i \in 1..t |-> b[i]]

\* the bytes send(cfd, buf, total, 0) reads
SendBuf(b, t) == [i \in 1..t |-> b[i - 1]]

\* results of one send(): "ok" (all bytes queued), or -1 with that errno
SendOutcomes == IF peer_gone THEN {EPIPE} ELSE {"ok", EPIPE, EOTHER}

DoSend(data, r) ==
    /\ sends' = Append(sends, [data |-> data, res |-> r])
    /\ out' = IF r = "ok" THEN out \o data ELSE out
    /\ errno' = IF r = "ok" THEN errno ELSE r
    /\ peer_gone' = (peer_gone \/ r = EPIPE)

\* wn < 0 && errno != EPIPE (server.c:304, 309)
SendFailed(wn, e) == wn < 0 /\ e # EPIPE

Wn(data, r) == IF r = "ok" THEN Len(data) ELSE -1

\* server.c:301-306
SendErr ==
    /\ pc = "respond"
    /\ Dispatch(too_long, total) = "error"
    /\ \E r \in SendOutcomes :
         /\ DoSend(ErrMsg, r)
         /\ log' = (IF SendFailed(Wn(ErrMsg, r), errno')
                    THEN Append(log, "perror send error message") ELSE log)
                   \o <<"overlong message">>
    /\ pc' = "close"
    /\ UNCHANGED <<exit_code, queue, nconn, progVars, connVars,
                   pat, rx, rxEnd, wrote, eintrs, afails>>

\* server.c:307-311
SendEcho ==
    /\ pc = "respond"
    /\ Dispatch(too_long, total) = "echo"
    /\ \E r \in SendOutcomes :
         /\ DoSend(SendBuf(buf, total), r)
         /\ IF SendFailed(Wn(SendBuf(buf, total), r), errno')
            THEN /\ log' = log \o <<"perror send echo", "echoed">>
                 /\ pc' = "close"
            ELSE /\ log' = log
                 /\ pc' = "newline"
    /\ UNCHANGED <<exit_code, queue, nconn, progVars, connVars,
                   pat, rx, rxEnd, wrote, eintrs, afails>>

\* server.c:312-313
SendNewline ==
    /\ pc = "newline"
    /\ \E r \in SendOutcomes : DoSend(Newline, r)
    /\ log' = Append(log, "echoed")
    /\ pc' = "close"
    /\ UNCHANGED <<exit_code, queue, nconn, progVars, connVars,
                   pat, rx, rxEnd, wrote, eintrs, afails>>

\* mutant: the empty branch continues the loop without close()
NoDataContinue ==
    /\ pc = "respond"
    /\ Dispatch(too_long, total) = "empty"
    /\ log' = Append(log, "no data")
    /\ pc' = "accept"
    /\ UNCHANGED <<exit_code, errno, queue, nconn, progVars, connVars,
                   histVars, afails>>

\* server.c:314-317
NoData ==
    /\ pc = "respond"
    /\ Dispatch(too_long, total) = "empty"
    /\ log' = Append(log, "no data")
    /\ pc' = "close"
    /\ UNCHANGED <<exit_code, errno, queue, nconn, progVars, connVars,
                   histVars, afails>>

\* mutant: after a failed send the loop continues without close()
CloseUnlessSendFailed ==
    /\ pc = "close"
    /\ LET failed == \E i \in 1..Len(sends) : sends[i].res # "ok"
       IN  /\ open' = IF failed THEN open ELSE open \ {cfd}
           /\ closes' = IF failed THEN closes ELSE [closes EXCEPT ![cfd] = @ + 1]
           /\ closed' = IF failed THEN closed ELSE Append(closed, cfd)
    /\ pc' = "accept"
    /\ UNCHANGED <<exit_code, errno, log, queue, nconn, progVars, accepted,
                   histVars, afails>>

\* mutant: a connection whose read failed is not closed
CloseUnlessReadError ==
    /\ pc = "close"
    /\ open' = IF rxEnd = "err" THEN open ELSE open \ {cfd}
    /\ closes' = IF rxEnd = "err" THEN closes ELSE [closes EXCEPT ![cfd] = @ + 1]
    /\ closed' = IF rxEnd = "err" THEN closed ELSE Append(closed, cfd)
    /\ pc' = "accept"
    /\ UNCHANGED <<exit_code, errno, log, queue, nconn, progVars, accepted,
                   histVars, afails>>

\* server.c:320, then back to the top of the loop
Close ==
    /\ pc = "close"
    /\ open' = open \ {cfd}
    /\ closes' = [closes EXCEPT ![cfd] = @ + 1]
    /\ closed' = Append(closed, cfd)
    /\ pc' = "accept"
    /\ UNCHANGED <<exit_code, errno, log, queue, nconn, progVars, accepted,
                   histVars, afails>>

Next ==
    \/ Socket \/ SetSockOpt \/ InetPton \/ Bind \/ Listen
    \/ Connect
    \/ Accept \/ AcceptEintr \/ AcceptError
    \/ RecvEof \/ RecvEintr \/ RecvError \/ RecvByte
    \/ SendErr \/ SendEcho \/ SendNewline \/ NoData
    \/ Close

Spec == Init /\ [][Next]_vars

\* a read that ends the read loop: the peer delivers a terminator,
\* end-of-stream or a non-transient error
EndingRead == (RecvEof \/ RecvError \/ RecvByte) /\ rxEnd' # ""

\* the handler's own steps after the read loop
HandlerStep == SendErr \/ SendEcho \/ SendNewline \/ NoData \/ Close

\* Spec with the scheduling the code has: a send or close that is reached
\* returns, and (the proviso on the peer) a pending read eventually ends the
\* read loop
FairSpec ==
    /\ Spec
    /\ WF_vars(EndingRead)
    /\ WF_vars(SendErr)
    /\ WF_vars(SendEcho)
    /\ WF_vars(SendNewline)
    /\ WF_vars(NoData)
    /\ WF_vars(Close)

\* ---- vocabulary of the properties --------------------------------------
\* the non-terminator bytes of a received sequence
Content(s) == SelectSeq(s, LAMBDA ch : ch \notin Terminators)

\* the handler of the current connection has finished its response
Done == rxEnd # "" /\ pc \in {"close", "accept"}

AllSendsOk == \A i \in 1..Len(sends) : sends[i].res = "ok"

Overlong == Len(Content(rx)) > MAX_MSG_LEN

\* the response the protocol defines for non-empty content c
Response(c) == IF Len(c) > MAX_MSG_LEN THEN ErrMsg ELSE c \o <<LF>>

\* the send() calls that produce it
ResponseSends(c) == IF Len(c) > MAX_MSG_LEN THEN <<ErrMsg>> ELSE <<c, <<LF>>>>

C2_OverlongGetsError ==
    (rxEnd = "term" /\ Overlong)
        => /\ \A i \in 1..Len(sends) : sends[i].data = ErrMsg
           /\ Len(sends) <= 1
           /\ out \in {<<>>, ErrMsg}
           /\ Done => Len(sends) = 1
           /\ (Done /\ AllSendsOk) => (out = ErrMsg /\ Len(out) = 13)

C2_Witness ==
    /\ Done /\ rxEnd = "term" /\ rx[Len(rx)] = LF
    /\ Len(Content(rx)) = MAX_MSG_LEN + 2
    /\ pat = 1
    /\ out = ErrMsg
    /\ closes[cfd] = 1

\* ---- C3 ----------------------------------------------------------------
\* C3: once the read loop has ended, too_long is set exactly when more than
\* 20 content bytes were read; 20 bytes and a terminator are echoed, 21
\* bytes and a terminator are answered with the error message.
C3_InclusiveBoundary ==
    /\ rxEnd # "" => (too_long # 0 <=> Len(Content(rx)) > MAX_MSG_LEN)
    /\ (Done /\ rxEnd = "term" /\ AllSendsOk /\ Len(Content(rx)) = MAX_MSG_LEN)
          => out = Content(rx) \o <<LF>>
    /\ (Done /\ rxEnd = "term" /\ AllSendsOk /\ Len(Content(rx)) = MAX_MSG_LEN + 1)
          => out = ErrMsg

C3_Witness ==
    /\ Done /\ rxEnd = "term" /\ AllSendsOk
    /\ Len(Content(rx)) = MAX_MSG_LEN
    /\ too_long = 0
    /\ Len(out) = MAX_MSG_LEN + 1
    /\ out = Content(rx) \o <<LF>>

C5_ImmediateEofSilent ==
    (rx = <<>> /\ rxEnd = "eof")
        => /\ sends = <<>>
           /\ out = <<>>
           /\ total = 0 /\ too_long = 0

C5_Witness ==
    /\ rx = <<>> /\ rxEnd = "eof"
    /\ pc = "accept" /\ cfd \in 1..MaxConns /\ closes[cfd] = 1
    /\ out = <<>>

\* ---- C6 ----------------------------------------------------------------
\* C6: for non-empty content the send calls and the bytes written are a
\* function of the content alone, the same whether the content was ended
\* by end-of-stream or by a terminator: the content and '\n' for at most 20
\* bytes, the error message for more.
C6_EofActsAsTerminator ==
    (rxEnd \in {"eof", "term"} /\ Content(rx) # <<>>)
        => /\ Len(sends) <= Len(ResponseSends(Content(rx)))
           /\ \A i \in 1..Len(sends) :
                 sends[i].data = ResponseSends(Content(rx))[i]
           /\ (Done /\ AllSendsOk) => out = Response(Content(rx))

C6_Witness ==
    /\ Done /\ rxEnd = "eof" /\ AllSendsOk
    /\ rx = <<"b", "E">>
    /\ out = <<"b", "E", LF>>

\* ---- C7 ----------------------------------------------------------------
C7_Bounded ==
    /\ total \in 0..MAX_MSG_LEN
    /\ DOMAIN buf = 0..MAX_MSG_LEN
    /\ wrote \subseteq 0..MAX_MSG_LEN
    /\ rxEnd # "" => (total \in wrote /\ buf[total] = NUL)
    /\ \A i \in 0..(total - 1) : buf[i] = Content(rx)[i + 1]

\* a step that reads one non-terminator byte on the current connection
C7_ContentStep ==
    /\ pc = "recv"
    /\ rx' # rx
    /\ rx'[Len(rx')] \notin Terminators

C7_Step ==
    C7_ContentStep =>
        IF total < MAX_MSG_LEN
        THEN /\ total' = total + 1
             /\ buf' = [buf EXCEPT ![total] = rx'[Len(rx')]]
             /\ too_long' = too_long
        ELSE /\ total' = total
             /\ buf' = buf
             /\ wrote' = wrote
             /\ too_long' = 1

\* C7: in every state 0 <= total <= 20 and every index of buf that was
\* assigned, the final NUL included, is within 0..20; a content byte is
\* stored only while total < 20, and every later one sets too_long and
\* leaves buf and total unchanged.
C7_BufferNeverOverflows == []C7_Bounded /\ [][C7_Step]_vars

C7_Witness ==
    /\ rxEnd # ""
    /\ Len(Content(rx)) > MAX_MSG_LEN + 1
    /\ total = MAX_MSG_LEN
    /\ too_long = 1
    /\ wrote = 0..MAX_MSG_LEN

\* ---- C8 ----------------------------------------------------------------
InHandler == pc \in {"recv", "respond", "newline", "close"}

\* C8: no connection is closed twice; while the handler runs the accepted
\* connection is open and not yet closed; whenever the server is at accept
\* every connection accepted so far has been closed exactly once, whichever
\* path the handler took.
C8_ClosedExactlyOnce ==
    /\ \A c \in 1..MaxConns : closes[c] <= 1
    /\ \A c \in 1..MaxConns : closes[c] = 1 => (\E i \in 1..Len(accepted) : accepted[i] = c)
    /\ InHandler => (open = {cfd} /\ closes[cfd] = 0)
    /\ pc = "accept" =>
          /\ open = {}
          /\ \A i \in 1..Len(accepted) : closes[accepted[i]] = 1

C8_Witness ==
    /\ pc = "accept"
    /\ Len(accepted) = 2
    /\ rxEnd = "err"
    /\ closes[1] = 1 /\ closes[2] = 1
    /\ open = {}

\* ---- C9 ----------------------------------------------------------------
Ids(n) == [i \in 1..n |-> i]

C9_OneAtATime ==
    /\ Cardinality(open) <= 1
    /\ pc = "accept" => open = {}
    /\ accepted \o queue = Ids(nconn)
    /\ Len(closed) <= Len(accepted)
    /\ Len(accepted) - Len(closed) <= 1
    /\ closed = SubSeq(accepted, 1, Len(closed))

\* an accept is performed only when no connection is open
C9_AcceptStep == accepted' # accepted => (open = {} /\ accepted = closed)

\* C9: at most one connection is open at any time, accept is performed only
\* when every accepted connection has been closed, pending connections stay
\* in the queue, and connections are accepted and closed in arrival order.
C9_Sequential == []C9_OneAtATime /\ [][C9_AcceptStep]_vars

C9_Witness ==
    /\ pc = "respond"
    /\ open = {1}
    /\ queue = <<2>>
    /\ accepted = <<1>>

\* ---- C10 ---------------------------------------------------------------
\* C10: after a read fails with a non-transient error the handler attempts
\* no send on that connection.
C10_NoPayloadAfterReadError ==
    rxEnd = "err" => (sends = <<>> /\ out = <<>>)

\* ---- C11 ---------------------------------------------------------------
\* C11: while an overlong message is still being read nothing is written,
\* and the error message is sent only after a terminator or end-of-stream
\* has been read on the connection.
C11_ErrorOnlyAfterTerminatorOrEof ==
    /\ (Overlong /\ pc = "recv") => (sends = <<>> /\ out = <<>>)
    /\ (\E i \in 1..Len(sends) : sends[i].data = ErrMsg)
          => rxEnd \in {"term", "eof"}

\* ---- C12 ---------------------------------------------------------------
C12_Framing ==
    /\ \A i \in 1..Len(rx) :
          rx[i] \in Terminators => (i = Len(rx) /\ rxEnd = "term")
    /\ rxEnd = "term" => (rx # <<>> /\ rx[Len(rx)] \in Terminators)
    /\ \A i \in 0..(total - 1) : buf[i] \notin Terminators
    /\ \A i \in 1..Len(sends) :
          \/ sends[i].data \in {ErrMsg, <<LF>>}
          \/ sends[i].data = Content(rx)
    /\ (Done /\ rxEnd = "term" /\ ~Overlong /\ Content(rx) # <<>> /\ AllSendsOk)
          => out = SubSeq(rx, 1, Len(rx) - 1) \o <<LF>>

\* once a terminator has been read, no further recv is made on the connection
C12_NoReadAfterTerminator ==
    (rxEnd = "term" /\ accepted' = accepted)
        => (rx' = rx /\ rxEnd' = rxEnd /\ eintrs' = eintrs /\ pc' # "recv")

\* C12: the message is the bytes before the first '\n' or '\r': a terminator
\* is the last byte read, it is neither stored nor echoed (a '\r'-terminated
\* message is answered with its content and '\n'), and nothing is read
\* after it.
C12_MessageEndsAtFirstTerminator ==
    []C12_Framing /\ [][C12_NoReadAfterTerminator]_vars

C12_Witness ==
    /\ Done /\ rxEnd = "term" /\ AllSendsOk
    /\ rx = <<"b", "E", CR>>
    /\ out = <<"b", "E", LF>>

\* ---- C13 ---------------------------------------------------------------
AnySendFailed == \E i \in 1..Len(sends) : sends[i].res # "ok"

\* the connection the history variables describe
Current == accepted[Len(accepted)]

C13_AfterFailedSend ==
    /\ Len(sends) <= 2
    /\ \A i \in 1..Len(sends) : \A j \in (i + 1)..Len(sends) :
          sends[i].res # "ok" => sends[j].data # sends[i].data
    /\ AnySendFailed =>
          /\ exit_code = Running
          /\ pc \in {"newline", "close", "accept"}
          /\ pc = "accept" => (closes[Current] = 1 /\ Current \notin open)

\* from the close step the loop goes to accept, with the connection closed
C13_CloseStep ==
    (AnySendFailed /\ pc = "close" /\ pc' # pc)
        => (pc' = "accept" /\ closes'[Current] = 1 /\ open' = {})

\* C13: after a send fails its bytes are not sent again, the process keeps
\* running, the connection is closed and the loop returns to accept.
C13_WriteFailureNotFatal ==
    []C13_AfterFailedSend /\ [][C13_CloseStep]_vars

C13_Witness ==
    /\ pc = "accept" /\ exit_code = Running
    /\ Len(sends) = 1 /\ sends[1].res = EOTHER
    /\ sends[1].data = <<"b", "E">>
    /\ out = <<>>
    /\ closes[Current] = 1

\* ---- C14 ---------------------------------------------------------------
\* a step in which accept() fails
C14_AcceptFails == afails' = afails + 1

C14_Step ==
    C14_AcceptFails =>
        /\ pc = "accept" /\ pc' = "accept"
        /\ exit_code' = Running
        /\ cfd' = -1
        /\ open = {} /\ open' = {}
        /\ UNCHANGED <<queue, accepted, closes, closed, buf, total, too_long,
                       rx, rxEnd, out, sends, eintrs>>
        /\ errno' = EINTR => log' = <<>>
        /\ errno' # EINTR => log' = <<"perror accept">>

\* C14: a failed accept leaves the process running at accept with no
\* connection (cfd < 0, nothing open), performs no read, write or close,
\* logs nothing for EINTR and logs the error otherwise; a handler runs only
\* on an accepted connection.
C14_AcceptFailureRecoverable ==
    [](InHandler => (cfd >= 1 /\ cfd \in open)) /\ [][C14_Step]_vars

C14_Witness ==
    /\ pc = "accept" /\ afails = 1
    /\ errno = EOTHER /\ log = <<"perror accept">>
    /\ cfd = -1 /\ open = {}
    /\ Len(accepted) = 1 /\ queue = <<2>>
    /\ exit_code = Running

\* ---- C15 ---------------------------------------------------------------
SetupStates == {"socket", "setsockopt", "inet_pton", "bind", "listen"}

\* the step that follows each setup step when it succeeds
SetupNext ==
    [p \in SetupStates |->
        CASE p = "socket" -> "setsockopt"
          [] p = "setsockopt" -> "inet_pton"
          [] p = "inet_pton" -> "bind"
          [] p = "bind" -> "listen"
          [] p = "listen" -> "accept"]

C15_Inv ==
    /\ pc = "exited" <=> exit_code # Running
    /\ pc = "exited" =>
          /\ exit_code = EXIT_FAILURE /\ exit_code # 0
          /\ log # <<>>
          /\ log[Len(log)] \in {"perror socket", "perror setsockopt",
                                "perror inet_pton", "perror bind", "perror listen"}
    /\ pc \in SetupStates \cup {"exited"} =>
          /\ accepted = <<>> /\ afails = 0 /\ nconn = 0 /\ queue = <<>>
          /\ cfd = -1 /\ open = {} /\ closed = <<>>
    /\ Serving => exit_code = Running

C15_Step ==
    /\ (pc \in SetupStates /\ pc' # pc) => pc' \in {SetupNext[pc], "exited"}
    /\ (pc \in SetupStates /\ pc' = "exited") => exit_code' = EXIT_FAILURE
    /\ (pc \in SetupStates /\ pc' = SetupNext[pc]) => exit_code' = Running
    /\ Serving => (pc' \in {"accept", "recv", "respond", "newline", "close"}
                    /\ exit_code' = Running)
    /\ pc = "exited" => UNCHANGED vars

\* C15: a failed setup step terminates the process with a non-zero status
\* before any accept; the accept loop is entered only from a successful
\* listen, which is reached only through every earlier step succeeding in
\* order; once serving, the process never exits.
C15_SetupFatalThenServeForever == []C15_Inv /\ [][C15_Step]_vars

C15_Witness ==
    /\ pc = "exited"
    /\ exit_code = EXIT_FAILURE
    /\ log = <<"perror bind">>
    /\ accepted = <<>>

\* ---- C16 ---------------------------------------------------------------
\* a step in which recv() is interrupted by a signal
C16_Interrupted == eintrs' = eintrs + 1

C16_Step ==
    C16_Interrupted =>
        /\ pc = "recv" /\ pc' = "recv"
        /\ errno' = EINTR
        /\ UNCHANGED <<buf, total, too_long, cfd, rx, rxEnd, out, sends,
                       wrote, log, open, closes, closed, accepted>>

\* C16: an interrupted read leaves buf, total, too_long and everything
\* written unchanged, and the handler is still at recv on the same
\* connection.
C16_EintrChangesNothing == [][C16_Step]_vars

C16_Witness ==
    /\ pc = "recv" /\ eintrs = 1 /\ errno = EINTR
    /\ rx = <<"b", "E">>
    /\ total = 2 /\ buf[0] = "b" /\ buf[1] = "E"
    /\ too_long = 0 /\ sends = <<>>

Min(a, b) == IF a < b THEN a ELSE b

\* the data of the sends the protocol defines for content c
ExpectedSends(c) ==
    IF Len(c) > MAX_MSG_LEN THEN <<ErrMsg>>
    ELSE IF Len(c) > 0 THEN <<c, <<LF>>>>
    ELSE <<>>

\* how many of them are made, given the result of the first
ExpectedCount(c, first) ==
    IF Len(c) > MAX_MSG_LEN THEN 1
    ELSE IF Len(c) = 0 THEN 0
    ELSE IF first = EOTHER THEN 1 ELSE 2

RECURSIVE Written(_)
\* the bytes of the sends that succeeded
Written(ss) ==
    IF ss = <<>> THEN <<>>
    ELSE (IF Head(ss).res = "ok" THEN Head(ss).data ELSE <<>>) \o Written(Tail(ss))

\* C18: for every accepted connection, whatever the earlier connections
\* left behind, total and too_long start at 0 and are a function of the
\* bytes read on this connection, and the sends and the bytes written are
\* a function of those bytes and of the results of this connection's sends.
C18_ResponseDependsOnOwnInput ==
    accepted # <<>> =>
        /\ rx = <<>> => (total = 0 /\ too_long = 0)
        /\ total = Min(Len(Content(rx)), MAX_MSG_LEN)
        /\ too_long = (IF Len(Content(rx)) > MAX_MSG_LEN THEN 1 ELSE 0)
        /\ \A i \in 0..(total - 1) : buf[i] = Content(rx)[i + 1]
        /\ Len(sends) <= Len(ExpectedSends(Content(rx)))
        /\ \A i \in 1..Len(sends) : sends[i].data = ExpectedSends(Content(rx))[i]
        /\ out = Written(sends)
        /\ pc \in {"recv", "respond"} => sends = <<>>
        /\ (Done /\ sends = <<>>) => ExpectedSends(Content(rx)) = <<>>
        /\ (Done /\ sends # <<>>)
              => Len(sends) = ExpectedCount(Content(rx), sends[1].res)

C18_Witness ==
    /\ Len(accepted) = 2 /\ Done /\ AllSendsOk
    /\ rx = <<"b", LF>>
    /\ out = <<"b", LF>>
    /\ wrote = {0, 1}
    /\ buf[2] = Stale /\ buf[MAX_MSG_LEN] = Stale

\* ---- C19 ---------------------------------------------------------------
\* every accepted connection is eventually closed, with the server at accept
C19_EventuallyClosed ==
    (open # {}) ~> (pc = "accept" /\ open = {} /\ closed = accepted)

\* in the read loop only a read can make progress: no send, close or
\* accept is possible until a read ends the loop
C19_ReadingBlocks ==
    pc = "recv" =>
        /\ ~ENABLED HandlerStep
        /\ ~ENABLED (Accept \/ AcceptEintr \/ AcceptError)
        /\ ENABLED EndingRead

\* a read that does not end the loop leaves the handler in the read loop
\* and the accepted connections unchanged
C19_ReadStep ==
    (pc = "recv" /\ rxEnd' = "") => (pc' = "recv" /\ accepted' = accepted /\ open' = open)

\* C19: if every pending read eventually delivers a terminator,
\* end-of-stream or a non-transient error, every accepted connection is
\* eventually closed and the server returns to accept; in the read loop
\* nothing but such a read lets the handler or the accept loop advance, so
\* a peer that never ends its message keeps the server reading forever.
C19_ClosesIfPeerEndsMessage ==
    /\ C19_EventuallyClosed
    /\ []C19_ReadingBlocks
    /\ [][C19_ReadStep]_vars

C19_Witness ==
    /\ pc = "accept" /\ open = {}
    /\ closed = <<1, 2>>
    /\ rxEnd = "eof" /\ eintrs = 1
    /\ Overlong /\ out = ErrMsg

====
